---- MODULE Spec2Model ----
(***************************************************************************)
(* planetas: RangeFinder.find_ranges and its two boundary locators         *)
(* (src/src/planetas/search/range_finder.py), with the process-wide        *)
(* precision flag of Config (src/src/planetas/config.py), the `main`       *)
(* group and the `ranges` command (src/src/planetas/cli.py),               *)
(* Config.get_ephemeris_path and ZodiacSign.from_longitude.                *)
(*                                                                         *)
(* Time.  A datetime is an integer number of ticks, one tick being the     *)
(* resolution of datetime (a microsecond in Python).  Tick 0 is a          *)
(* midnight.  The scale is reduced: a minute is MinuteTicks ticks and a    *)
(* day is two minutes.  timedelta arithmetic is integer                    *)
(* arithmetic on ticks; timedelta / 2 rounds half to even, as Python does. *)
(*                                                                         *)
(* Oracle.  calculator.get_sign is a deterministic function of the         *)
(* instant.  The variable oracle holds the part of that function that is   *)
(* determined so far: an answer is chosen when an instant is first asked   *)
(* for and is given again whenever the same instant is asked for again.    *)
(* Every total oracle is covered this way.                                 *)
(***************************************************************************)
EXTENDS Integers, Sequences, FiniteSets, TLC

\* ---------------------------------------------------------------- bounds
MinuteTicks == 2
MaxStepDays == 3
MaxWindowSteps == 2
MaxBracketDays == 3
DegreeUnits == 2

\* The model's day is two of its minutes.
DayTicks == 2 * MinuteTicks

\* ---------------------------------------------------------------- values
\* The answer of get_sign: a position with a sign, or no position at all.
None == "None"
Signs == {"A", "B"}
Answers == Signs \cup {None}
target_sign == "B"

\* entry_date = None
NoDate == -1

\* The command has not called sys.exit.
NoStatus == -1

\* What the variables of the `ranges` command, of get_ephemeris_path and of
\* from_longitude hold while these are not running.
NoPath == "none"
NoSign == "none"

VARIABLES
    start_date,               \* argument of find_ranges
    end_date,                 \* argument of find_ranges
    step_days,                \* planet.search_step_days
    codomain,                 \* the answers the oracle under test can give
    oracle,                   \* instant -> answer, where determined
    Config_precision_minutes, \* Config._precision_minutes
    pc,                       \* where the generator (or the locator) stands
    current,                  \* find_ranges local
    in_sign,                  \* find_ranges local
    entry_date,               \* find_ranges local, NoDate for None
    before,                   \* locator local
    after,                    \* locator local
    precision_minutes,        \* locator local, read from Config on entry
    ret,                      \* call site of the running locator
    call,                     \* before and after as passed to the locator
    result,                   \* value returned by the locator
    yielded,                  \* the DateRanges handed to the consumer so far
    queries,                  \* history: the get_sign calls made, in order
    pulls,                    \* history: the next() calls of the consumer
    failed_at,                \* history: the instant whose get_sign raised
    run,                      \* which search of the process this is (1, 2)
    previous,                 \* what the previous search of the process yielded
    argv_ok,                  \* ranges: planet, dates and ayanamsa parse
    systems,                  \* ranges: the systems to search, in order
    exit_status,              \* ranges: status of sys.exit, NoStatus before
    stderr,                   \* ranges: the error message echoed
    constructed,              \* ranges: the calculators constructed so far
    precision,                \* main: the --precision option of the invocation
    last_precision,           \* history: the option of the invocation before
    results_by_system,        \* ranges: the systems searched so far, in order
    written,                  \* ranges: the systems whose ranges were echoed
    files,                    \* what get_ephemeris_path finds on the machine
    ephe_path,                \* the location get_ephemeris_path returned
    longitude,                \* argument of ZodiacSign.from_longitude
    sign                      \* what ZodiacSign.from_longitude returned

vars == <<start_date, end_date, step_days, codomain, oracle,
          Config_precision_minutes, pc, current, in_sign, entry_date,
          before, after, precision_minutes, ret, call, result, yielded,
          queries, pulls, failed_at, run, previous, argv_ok, systems,
          exit_status, stderr, constructed, precision, last_precision,
          results_by_system, written, files, ephe_path, longitude, sign>>

scanVars == <<current, in_sign, entry_date>>
locVars == <<before, after, precision_minutes, ret, call, result>>
inputVars == <<start_date, end_date, step_days, codomain, Config_precision_minutes>>
\* What only the consumer, a failing oracle or a second search change.
optVars == <<argv_ok, systems, precision, last_precision>>
cmdVars == <<optVars, exit_status, stderr, constructed, results_by_system,
             written>>
pathVars == <<files, ephe_path>>
signVars == <<longitude, sign>>
otherVars == <<cmdVars, pathVars, signVars>>
envVars == <<failed_at, run, previous, otherVars>>

\* ---------------------------------------------------------------- helpers
Min(a, b) == IF a <= b THEN a ELSE b

\* timedelta(days=step_days)
step == step_days * DayTicks

\* d / 2 for a timedelta d: rounded to the nearest tick, ties to even.
HalfDelta(d) ==
    LET q == d \div 2
    IN  IF d % 2 = 0 THEN q
        ELSE IF q % 2 = 0 THEN q ELSE q + 1

\* Mutant: the gap is not halved.
MidNotHalved(b, a) == b + (a - b)

\* mid = before + (after - before) / 2
Mid(b, a) == b + HalfDelta(a - b)

\* Mutant: the gap the bisection stops at ignores the precision flag.
MinDeltaAlwaysDay(pm) == DayTicks

\* min_delta = timedelta(minutes=1) if precision_minutes else timedelta(days=1)
MinDelta(pm) == IF pm THEN MinuteTicks ELSE DayTicks

\* Mutant: the day truncation leaves the time of day's hours and minutes.
TruncateToMinute(t, pm) == t - (t % MinuteTicks)

\* dt.replace(second=0, microsecond=0) / dt.replace(hour=0, minute=0, ...)
Truncate(t, pm) == IF pm THEN t - (t % MinuteTicks) ELSE t - (t % DayTicks)

\* Mutant: _find_entry_point returns the wrong end of its bracket.
EntryResultBefore(b, a, pm) == Truncate(b, pm)

\* _find_entry_point returns its `after`, truncated.
EntryResult(b, a, pm) == Truncate(a, pm)

\* Mutant: _find_exit_point returns the wrong end of its bracket.
ExitResultAfter(b, a, pm) == Truncate(a, pm)

\* _find_exit_point returns its `before`, truncated.
ExitResult(b, a, pm) == Truncate(b, pm)

\* Mutant: the None test of _signs_match is inverted.
SignsMatchNoneMatches(sign1, sign2) == IF sign1 = None THEN TRUE ELSE sign1 = sign2

\* RangeFinder._signs_match
SignsMatch(sign1, sign2) == IF sign1 = None THEN FALSE ELSE sign1 = sign2

DateRange(s, e) == [start |-> s, end |-> e, sign |-> target_sign]

\* position = get_sign(planet, t); sign = position.sign if position else None.
\* ans is the sign obtained; kind records which statement asked.
GetSign(t, ans, kind) ==
    /\ ans \in (IF t \in DOMAIN oracle THEN {oracle[t]} ELSE codomain)
    /\ oracle' = [x \in DOMAIN oracle \cup {t} |->
                    IF x = t THEN ans ELSE oracle[x]]
    /\ queries' = Append(queries, [at |-> t, kind |-> kind])

\* ---------------------------------------------------------------- find_ranges
\* Mutant: the entry at the window start is truncated like a located one.
SampleEntersAtStartTruncated(m) ==
    /\ m /\ ~in_sign /\ current = start_date
    /\ entry_date' = Truncate(start_date, Config_precision_minutes)
    /\ in_sign' = TRUE
    /\ current' = current + step
    /\ pc' = "scan"
    /\ UNCHANGED locVars

\* Entry at the very first sample: the window start is the entry.
SampleEntersAtStart(m) ==
    /\ m /\ ~in_sign /\ current = start_date
    /\ entry_date' = start_date
    /\ in_sign' = TRUE
    /\ current' = current + step
    /\ pc' = "scan"
    /\ UNCHANGED locVars

\* Mutant: the entry is searched for from the start of the window.
SampleEntersFromStart(m) ==
    /\ m /\ ~in_sign /\ current # start_date
    /\ before' = start_date
    /\ after' = current
    /\ call' = [before |-> start_date, after |-> current]
    /\ precision_minutes' = Config_precision_minutes
    /\ ret' = "loop"
    /\ pc' = "entry"
    /\ UNCHANGED <<scanVars, result>>

\* Entry at a later sample: call _find_entry_point(current - step, current).
SampleEnters(m) ==
    /\ m /\ ~in_sign /\ current # start_date
    /\ before' = current - step
    /\ after' = current
    /\ call' = [before |-> current - step, after |-> current]
    /\ precision_minutes' = Config_precision_minutes
    /\ ret' = "loop"
    /\ pc' = "entry"
    /\ UNCHANGED <<scanVars, result>>

\* Mutant: the exit branch is missing, the scan just advances.
SampleExitsMissed(m) ==
    /\ ~m /\ in_sign
    /\ current' = current + step
    /\ pc' = "scan"
    /\ UNCHANGED <<in_sign, entry_date, locVars>>

\* Exit: call _find_exit_point(current - step, current).
SampleExits(m) ==
    /\ ~m /\ in_sign
    /\ before' = current - step
    /\ after' = current
    /\ call' = [before |-> current - step, after |-> current]
    /\ precision_minutes' = Config_precision_minutes
    /\ ret' = "loop"
    /\ pc' = "exit"
    /\ UNCHANGED <<scanVars, result>>

\* Mutant: where nothing changes the scan advances by two steps.
SampleNoChangeSkips(m) ==
    /\ m = in_sign
    /\ current' = current + 2 * step
    /\ pc' = "scan"
    /\ UNCHANGED <<in_sign, entry_date, locVars>>

\* Neither branch: just advance.
SampleNoChange(m) ==
    /\ m = in_sign
    /\ current' = current + step
    /\ pc' = "scan"
    /\ UNCHANGED <<in_sign, entry_date, locVars>>

\* One iteration of `while current <= end_date`, up to a locator call.
CoarseSample ==
    /\ pc = "scan"
    /\ current <= end_date
    /\ \E ans \in Answers :
         /\ GetSign(current, ans, "coarse")
         /\ LET m == SignsMatch(ans, target_sign)
            IN  \/ SampleEntersAtStart(m)
                \/ SampleEnters(m)
                \/ SampleExits(m)
                \/ SampleNoChange(m)
    /\ UNCHANGED <<inputVars, envVars, pulls, yielded>>

\* Mutant: the located entry is not recorded.
EntryFoundNotRecorded ==
    /\ pc = "entry_ret"
    /\ entry_date' = NoDate
    /\ in_sign' = TRUE
    /\ current' = current + step
    /\ pc' = "scan"
    /\ UNCHANGED <<inputVars, envVars, pulls, oracle, queries, locVars, yielded>>

\* _find_entry_point returned into the loop: in_sign = True; current += step.
EntryFound ==
    /\ pc = "entry_ret"
    /\ entry_date' = result
    /\ in_sign' = TRUE
    /\ current' = current + step
    /\ pc' = "scan"
    /\ UNCHANGED <<inputVars, envVars, pulls, oracle, queries, locVars, yielded>>

\* Mutant: the range closed in the loop is not yielded, the scan goes on.
ExitFoundNoYield ==
    /\ pc = "exit_ret"
    /\ ret = "loop"
    /\ in_sign' = FALSE
    /\ entry_date' = NoDate
    /\ current' = current + step
    /\ pc' = "scan"
    /\ UNCHANGED <<inputVars, envVars, pulls, oracle, queries, locVars, yielded>>

\* _find_exit_point returned into the loop: yield the range (if an entry is
\* recorded) and suspend at the yield.
ExitFound ==
    /\ pc = "exit_ret"
    /\ ret = "loop"
    /\ IF entry_date # NoDate
         THEN /\ yielded' = Append(yielded, DateRange(entry_date, result))
              /\ pc' = "yielded"
              /\ UNCHANGED scanVars
         ELSE /\ in_sign' = FALSE
              /\ entry_date' = NoDate
              /\ current' = current + step
              /\ pc' = "scan"
              /\ UNCHANGED yielded
    /\ UNCHANGED <<inputVars, envVars, pulls, oracle, queries, locVars>>

\* Mutant: the end of the window is truncated like a located exit.
FinalStillInSignTruncated(m) ==
    /\ m
    /\ yielded' = Append(yielded,
            DateRange(entry_date, Truncate(end_date, Config_precision_minutes)))
    /\ pc' = "yielded_final"
    /\ UNCHANGED locVars

\* The loop is over and a range is open: re-check the end of the window.
FinalStillInSign(m) ==
    /\ m
    /\ yielded' = Append(yielded, DateRange(entry_date, end_date))
    /\ pc' = "yielded_final"
    /\ UNCHANGED locVars

\* Mutant: the exit at the end of the window is searched for up to the next
\* coarse sample instead of up to the window end.
FinalLeftSignPastEnd(m) ==
    /\ ~m
    /\ before' = current - step
    /\ after' = current
    /\ call' = [before |-> current - step, after |-> current]
    /\ precision_minutes' = Config_precision_minutes
    /\ ret' = "final"
    /\ pc' = "exit"
    /\ UNCHANGED <<yielded, result>>

\* The re-check left the sign: call _find_exit_point(search_start, end_date).
FinalLeftSign(m) ==
    /\ ~m
    /\ before' = Min(current - step, end_date)
    /\ after' = end_date
    /\ call' = [before |-> Min(current - step, end_date), after |-> end_date]
    /\ precision_minutes' = Config_precision_minutes
    /\ ret' = "final"
    /\ pc' = "exit"
    /\ UNCHANGED <<yielded, result>>

\* Mutant: a range still open when the window is over is dropped.
LoopEndInSignDropped ==
    /\ pc = "scan"
    /\ current > end_date
    /\ in_sign /\ entry_date # NoDate
    /\ pc' = "done"
    /\ UNCHANGED <<inputVars, envVars, pulls, oracle, queries, scanVars, locVars,
                   yielded>>

\* The loop is over and a range is open: ask for the end of the window.
LoopEndInSign ==
    /\ pc = "scan"
    /\ current > end_date
    /\ in_sign /\ entry_date # NoDate
    /\ \E ans \in Answers :
         /\ GetSign(end_date, ans, "final")
         /\ LET m == SignsMatch(ans, target_sign)
            IN  FinalStillInSign(m) \/ FinalLeftSign(m)
    /\ UNCHANGED <<inputVars, envVars, pulls, scanVars>>

\* Mutant: with no range open the loop is not left when the window is over.
LoopEndOutsideSpins ==
    /\ pc = "scan"
    /\ current > end_date
    /\ ~(in_sign /\ entry_date # NoDate)
    /\ pc' = "scan"
    /\ UNCHANGED <<inputVars, envVars, pulls, oracle, queries, scanVars, locVars,
                   yielded>>

\* The loop is over and no range is open: the generator returns.
LoopEndOutside ==
    /\ pc = "scan"
    /\ current > end_date
    /\ ~(in_sign /\ entry_date # NoDate)
    /\ pc' = "done"
    /\ UNCHANGED <<inputVars, envVars, pulls, oracle, queries, scanVars, locVars,
                   yielded>>

\* Mutant: the last range ends at the window end whatever the locator found.
FinalExitFoundAtWindowEnd ==
    /\ pc = "exit_ret"
    /\ ret = "final"
    /\ yielded' = Append(yielded, DateRange(entry_date, end_date))
    /\ pc' = "yielded_final"
    /\ UNCHANGED <<inputVars, envVars, pulls, oracle, queries, scanVars, locVars>>

\* _find_exit_point returned for the end of the window: yield the last range.
FinalExitFound ==
    /\ pc = "exit_ret"
    /\ ret = "final"
    /\ yielded' = Append(yielded, DateRange(entry_date, result))
    /\ pc' = "yielded_final"
    /\ UNCHANGED <<inputVars, envVars, pulls, oracle, queries, scanVars, locVars>>

\* ---------------------------------------------------------------- locators
\* Mutant: the loop goes on while the gap is at least min_delta.
BisectEntryOneMore ==
    /\ pc = "entry"
    /\ (after - before) >= MinDelta(precision_minutes)
    /\ LET mid == Mid(before, after)
       IN  \E ans \in Answers :
             /\ GetSign(mid, ans, "bisect")
             /\ IF SignsMatch(ans, target_sign)
                  THEN after' = mid /\ UNCHANGED before
                  ELSE before' = mid /\ UNCHANGED after
    /\ UNCHANGED <<inputVars, envVars, pulls, scanVars, precision_minutes, ret, call,
                   result, pc, yielded>>

\* One iteration of the while loop of _find_entry_point.
BisectEntry ==
    /\ pc = "entry"
    /\ (after - before) > MinDelta(precision_minutes)
    /\ LET mid == Mid(before, after)
       IN  \E ans \in Answers :
             /\ GetSign(mid, ans, "bisect")
             /\ IF SignsMatch(ans, target_sign)
                  THEN after' = mid /\ UNCHANGED before
                  ELSE before' = mid /\ UNCHANGED after
    /\ UNCHANGED <<inputVars, envVars, pulls, scanVars, precision_minutes, ret, call,
                   result, pc, yielded>>

\* Mutant: the entry is rounded up to the next quantum instead of down.
ReturnEntryRoundedUp ==
    /\ pc = "entry"
    /\ ~((after - before) > MinDelta(precision_minutes))
    /\ result' = IF Truncate(after, precision_minutes) = after
                   THEN after
                   ELSE Truncate(after, precision_minutes)
                            + MinDelta(precision_minutes)
    /\ pc' = "entry_ret"
    /\ UNCHANGED <<inputVars, envVars, pulls, oracle, queries, scanVars, before,
                   after, precision_minutes, ret, call, yielded>>

\* The loop of _find_entry_point is over: return the truncated `after`.
ReturnEntry ==
    /\ pc = "entry"
    /\ ~((after - before) > MinDelta(precision_minutes))
    /\ result' = EntryResult(before, after, precision_minutes)
    /\ pc' = "entry_ret"
    /\ UNCHANGED <<inputVars, envVars, pulls, oracle, queries, scanVars, before,
                   after, precision_minutes, ret, call, yielded>>

\* Mutant: the exit loop goes on while the gap is at least min_delta.
BisectExitOneMore ==
    /\ pc = "exit"
    /\ (after - before) >= MinDelta(precision_minutes)
    /\ LET mid == Mid(before, after)
       IN  \E ans \in Answers :
             /\ GetSign(mid, ans, "bisect")
             /\ IF SignsMatch(ans, target_sign)
                  THEN before' = mid /\ UNCHANGED after
                  ELSE after' = mid /\ UNCHANGED before
    /\ UNCHANGED <<inputVars, envVars, pulls, scanVars, precision_minutes, ret, call,
                   result, pc, yielded>>

\* One iteration of the while loop of _find_exit_point.
BisectExit ==
    /\ pc = "exit"
    /\ (after - before) > MinDelta(precision_minutes)
    /\ LET mid == Mid(before, after)
       IN  \E ans \in Answers :
             /\ GetSign(mid, ans, "bisect")
             /\ IF SignsMatch(ans, target_sign)
                  THEN before' = mid /\ UNCHANGED after
                  ELSE after' = mid /\ UNCHANGED before
    /\ UNCHANGED <<inputVars, envVars, pulls, scanVars, precision_minutes, ret, call,
                   result, pc, yielded>>

\* The loop of _find_exit_point is over: return the truncated `before`.
ReturnExit ==
    /\ pc = "exit"
    /\ ~((after - before) > MinDelta(precision_minutes))
    /\ result' = ExitResult(before, after, precision_minutes)
    /\ pc' = "exit_ret"
    /\ UNCHANGED <<inputVars, envVars, pulls, oracle, queries, scanVars, before,
                   after, precision_minutes, ret, call, yielded>>

\* ---------------------------------------------------------------- consumer
\* next() on a generator that has not run yet: the body starts.
PullFirst ==
    /\ pc = "created"
    /\ pulls' = pulls + 1
    /\ pc' = "scan"
    /\ UNCHANGED <<inputVars, envVars, oracle, queries, scanVars, locVars, yielded>>

\* Mutant: the scan state is not reset after the yield.
PullNextNoReset ==
    /\ pc = "yielded"
    /\ current' = current + step
    /\ pulls' = pulls + 1
    /\ pc' = "scan"
    /\ UNCHANGED <<inputVars, envVars, oracle, queries, in_sign, entry_date, locVars,
                   yielded>>

\* next() after a range yielded inside the loop: the body resumes after the
\* yield (in_sign = False; entry_date = None; current += step).
PullNext ==
    /\ pc = "yielded"
    /\ in_sign' = FALSE
    /\ entry_date' = NoDate
    /\ current' = current + step
    /\ pulls' = pulls + 1
    /\ pc' = "scan"
    /\ UNCHANGED <<inputVars, envVars, oracle, queries, locVars, yielded>>

\* next() after the range yielded for the end of the window: the body ends.
PullLast ==
    /\ pc = "yielded_final"
    /\ pulls' = pulls + 1
    /\ pc' = "done"
    /\ UNCHANGED <<inputVars, envVars, oracle, queries, scanVars, locVars, yielded>>

\* The consumer drops the generator where it is suspended (before the first
\* next() or at a yield): the body never resumes.
Stop ==
    /\ pc \in {"created", "yielded", "yielded_final"}
    /\ pc' = "closed"
    /\ UNCHANGED <<inputVars, envVars, pulls, oracle, queries, scanVars, locVars,
                   yielded>>

\* ---------------------------------------------------------------- environment
\* The get_sign call the running code is about to make, if it is about to
\* make one: line 53, line 82, or line 135 / 171.
NextQuery ==
    IF pc = "scan" /\ current <= end_date
      THEN [at |-> current, kind |-> "coarse"]
    ELSE IF pc = "scan" /\ in_sign /\ entry_date # NoDate
      THEN [at |-> end_date, kind |-> "final"]
    ELSE IF pc \in {"entry", "exit"}
              /\ (after - before) > MinDelta(precision_minutes)
      THEN [at |-> Mid(before, after), kind |-> "bisect"]
    ELSE [at |-> NoDate, kind |-> "none"]

\* Mutant: the failing call is caught and the statement that made it runs
\* again.
OracleFailsRetried ==
    /\ NextQuery.at # NoDate
    /\ failed_at = NoDate
    /\ queries' = Append(queries, NextQuery)
    /\ failed_at' = NextQuery.at
    /\ UNCHANGED <<inputVars, run, previous, otherVars, pulls, oracle, scanVars,
                   locVars, pc, yielded>>

\* get_sign raises.  No statement of find_ranges or of the locators catches
\* anything: the exception leaves the generator, which is finished by it.
OracleFails ==
    /\ NextQuery.at # NoDate
    /\ failed_at = NoDate
    /\ queries' = Append(queries, NextQuery)
    /\ failed_at' = NextQuery.at
    /\ pc' = "failed"
    /\ UNCHANGED <<inputVars, run, previous, otherVars, pulls, oracle, scanVars,
                   locVars, yielded>>

\* Config.set_precision_minutes(enabled), called by the code that consumes the
\* generator while the generator is suspended at a yield, or after it ended.
SetPrecision ==
    /\ pc \in {"yielded", "yielded_final", "done"}
    /\ \E enabled \in BOOLEAN :
         /\ enabled # Config_precision_minutes
         /\ Config_precision_minutes' = enabled
    /\ UNCHANGED <<start_date, end_date, step_days, codomain, envVars, pulls,
                   oracle, queries, scanVars, locVars, pc, yielded>>

\* find_ranges is called a second time with the same arguments on the same
\* calculator, after the first generator ended.
SearchAgain ==
    /\ pc = "done"
    /\ run = 1
    /\ run' = 2
    /\ previous' = yielded
    /\ pc' = "created"
    /\ current' = start_date
    /\ in_sign' = FALSE
    /\ entry_date' = NoDate
    /\ before' = 0 /\ after' = 0
    /\ precision_minutes' = Config_precision_minutes
    /\ ret' = "none"
    /\ call' = [before |-> 0, after |-> 0]
    /\ result' = NoDate
    /\ yielded' = << >>
    /\ queries' = << >>
    /\ pulls' = 0
    /\ UNCHANGED <<inputVars, oracle, failed_at, otherVars>>

\* ---------------------------------------------------------------- Config.get_ephemeris_path
\* What the machine holds at each place get_ephemeris_path looks at:
\* explicit is Config._ephemeris_path ("unset" for None, else the directory
\* set_ephemeris_path accepted); env is SWISSEPH_PATH ("unset", a path that
\* is not a directory, or a directory); each candidate is missing, a
\* directory, or a directory that holds *.se1 files.
Machines ==
    [explicit : {"unset", "dir"},
     env : {"unset", "notdir", "dir"},
     home : {"missing", "dir", "se1"},
     usr_share : {"missing", "dir", "se1"},
     usr_local : {"missing", "dir", "se1"},
     cwd_ephe : {"missing", "dir", "se1"},
     cwd : {"dir", "se1"}]

\* candidates, lines 41-47
candidates == <<"home", "usr_share", "usr_local", "cwd_ephe", "cwd">>

\* The loop over the candidates, from candidate i on (lines 49-58).
RECURSIVE FirstCandidate(_, _)
FirstCandidate(f, i) ==
    IF i > Len(candidates) THEN "FileNotFoundError"
    ELSE IF f[candidates[i]] = "se1" THEN candidates[i]
    ELSE FirstCandidate(f, i + 1)

\* Config.get_ephemeris_path: the place returned, or the exception raised.
get_ephemeris_path(f) ==
    IF f.explicit # "unset" THEN "explicit"
    ELSE IF f.env = "dir" THEN "env"
    ELSE FirstCandidate(f, 1)

GetEphemerisPath ==
    /\ pc = "get_ephemeris_path"
    /\ ephe_path' = get_ephemeris_path(files)
    /\ pc' = "path_returned"
    /\ UNCHANGED <<inputVars, failed_at, run, previous, cmdVars, signVars, files,
                   pulls, oracle, queries, scanVars, locVars, yielded>>

\* ---------------------------------------------------------------- ZodiacSign.from_longitude
\* A longitude is a float.  It is modelled as an integer number of units,
\* DegreeUnits to the degree, on a grid with the two densities that matter
\* here: floats of small magnitude are dense (every unit is one), the floats
\* a negative remainder below 2^7 is lifted to by adding 360 are sparse (one
\* every Grain units), as doubles above 2^7 are sparser than doubles below.
\* A remainder from 2^7 up is lifted to a float that is no sparser than
\* itself, so the sum is exact there.
FullCircle == 360
SignWidth == 30
Grain == 2 * DegreeUnits
SparseFrom == (FullCircle - 2^7) * DegreeUnits

Abs(x) == IF x < 0 THEN -x ELSE x
IsFloat(v) == Abs(v) < SparseFrom \/ v % Grain = 0

\* The float nearest to the real number e, ties to the even one.
RoundToFloat(e) ==
    IF Abs(e) < SparseFrom THEN e
    ELSE LET r == e % Grain
             lo == e - r
         IN  IF 2 * r < Grain THEN lo
             ELSE IF 2 * r > Grain THEN lo + Grain
             ELSE IF (lo \div Grain) % 2 = 0 THEN lo ELSE lo + Grain

\* x % m on floats, m > 0: the exact remainder with the sign of x (fmod),
\* to which m is added, in float arithmetic, when it is negative.
FloatMod(x, m) ==
    LET mod == IF x >= 0 THEN x % m ELSE -((-x) % m)
    IN  IF mod < 0 THEN RoundToFloat(mod + m) ELSE mod

\* The members of ZodiacSign, by value.
SignNames ==
    <<"ARIES", "TAURUS", "GEMINI", "CANCER", "LEO", "VIRGO", "LIBRA",
      "SCORPIO", "SAGITTARIUS", "CAPRICORN", "AQUARIUS", "PISCES">>

\* ZodiacSign.longitude_start and longitude_end of the member of value v.
longitude_start(v) == v * SignWidth * DegreeUnits
longitude_end(v) == (v + 1) * SignWidth * DegreeUnits

\* ZodiacSign.from_longitude: cls(index) raises ValueError when index is not
\* the value of a member.
from_longitude(lon) ==
    LET normalized == FloatMod(lon, FullCircle * DegreeUnits)
        index == normalized \div (SignWidth * DegreeUnits)
    IN  IF index \in 0 .. (Len(SignNames) - 1)
          THEN SignNames[index + 1]
          ELSE "ValueError"

FromLongitude ==
    /\ pc = "from_longitude"
    /\ sign' = from_longitude(longitude)
    /\ pc' = "sign_returned"
    /\ UNCHANGED <<inputVars, failed_at, run, previous, cmdVars, pathVars,
                   longitude, pulls, oracle, queries, scanVars, locVars, yielded>>

\* ---------------------------------------------------------------- ranges command
\* sys.exit(status) after click.echo(message, err=True).
Exit(status, message) ==
    /\ exit_status' = status
    /\ stderr' = message
    /\ pc' = "exited"

OrderMessage == "Error: Start date must be before end date."
ValueMessage == "Error: ValueError"
NotFoundMessage == "Error: FileNotFoundError"
WrittenMessage == "Results written to output"
Traceback == "Traceback (most recent call last):"

\* The names `ranges` iterates over for --system all, in this order.
AllSystems == <<"tropical", "sidereal", "astronomical">>

\* The values of the --system option.
SystemOptions == {"tropical", "sidereal", "astronomical", "all"}

\* The systems `ranges` searches for a value of the --system option.
SystemsOf(option) == IF option = "all" THEN AllSystems ELSE <<option>>

\* _parse_sign_for_system: a Constellation for the astronomical system, a
\* ZodiacSign otherwise. A name that parsed as a ZodiacSign for the tropical
\* system parses for the sidereal system too.
SignParses(system) ==
    IF system = "sidereal" /\ results_by_system # << >> THEN {TRUE}
    ELSE BOOLEAN

\* The calculator's constructor asks Config.get_ephemeris_path for the
\* ephemeris; where the machine is left open, either outcome.
EphemerisFound ==
    IF files = << >> THEN BOOLEAN
    ELSE {get_ephemeris_path(files) # "FileNotFoundError"}

\* Mutant: only a start after the end is rejected.
RangesEqualAccepted ==
    /\ pc = "ranges"
    /\ IF ~argv_ok
         THEN Exit(1, ValueMessage)
       ELSE IF start_date > end_date
         THEN Exit(1, OrderMessage)
       ELSE /\ pc' = "search"
            /\ UNCHANGED <<exit_status, stderr>>
    /\ UNCHANGED <<inputVars, failed_at, run, previous, optVars, constructed,
                   results_by_system, written, pathVars, signVars, pulls,
                   oracle, queries, scanVars, locVars, yielded>>

\* The body of `ranges` up to the search: the arguments are parsed (a
\* ValueError ends the command) and the order of the dates is checked.
Ranges ==
    /\ pc = "ranges"
    /\ IF ~argv_ok
         THEN Exit(1, ValueMessage)
       ELSE IF start_date >= end_date
         THEN Exit(1, OrderMessage)
       ELSE /\ pc' = "search"
            /\ UNCHANGED <<exit_status, stderr>>
    /\ UNCHANGED <<inputVars, failed_at, run, previous, optVars, constructed,
                   results_by_system, written, pathVars, signVars, pulls,
                   oracle, queries, scanVars, locVars, yielded>>

\* _run_range_search for the next system, up to the call of find_ranges:
\* the sign is parsed for the system (ValueError), the calculator is
\* constructed (FileNotFoundError when no ephemeris is found) and the
\* generator is created on the same window.
RunRangeSearch ==
    /\ pc = "search"
    /\ Len(results_by_system) < Len(systems)
    /\ \E sign_ok \in SignParses(systems[Len(results_by_system) + 1]),
          ephemeris_found \in EphemerisFound :
         IF ~sign_ok
           THEN /\ Exit(1, ValueMessage)
                /\ UNCHANGED <<constructed, oracle, queries, pulls, scanVars,
                               yielded>>
         ELSE IF ~ephemeris_found
           THEN /\ Exit(1, NotFoundMessage)
                /\ UNCHANGED <<constructed, oracle, queries, pulls, scanVars,
                               yielded>>
         ELSE /\ constructed' = constructed + 1
              /\ oracle' = [x \in {} |-> None]
              /\ queries' = << >>
              /\ pulls' = 0
              /\ current' = start_date
              /\ in_sign' = FALSE
              /\ entry_date' = NoDate
              /\ yielded' = << >>
              /\ pc' = "created"
              /\ UNCHANGED <<exit_status, stderr>>
    /\ UNCHANGED <<inputVars, failed_at, run, previous, optVars,
                   results_by_system, written, pathVars, signVars, locVars>>

\* Mutant: the ranges of a system are echoed as soon as its search returns.
SearchReturnsEchoes ==
    /\ pc = "done"
    /\ pc' = "search"
    /\ results_by_system' =
         Append(results_by_system, systems[Len(results_by_system) + 1])
    /\ written' = results_by_system'
    /\ UNCHANGED <<inputVars, failed_at, run, previous, optVars, exit_status,
                   stderr, constructed, pathVars, signVars, pulls, oracle,
                   queries, scanVars, locVars, yielded>>

\* list(find_ranges(...)) is complete: _run_range_search returns and
\* `ranges` stores the list under the system's name.
SearchReturns ==
    /\ pc = "done"
    /\ pc' = "search"
    /\ results_by_system' =
         Append(results_by_system, systems[Len(results_by_system) + 1])
    /\ UNCHANGED <<inputVars, failed_at, run, previous, optVars, exit_status,
                   stderr, constructed, written, pathVars, signVars, pulls,
                   oracle, queries, scanVars, locVars, yielded>>

\* Every system has been searched: the ranges are formatted and written to
\* the output file (with a note on stderr) or echoed.
RangesOutput ==
    /\ pc = "search"
    /\ Len(results_by_system) = Len(systems)
    /\ written' = results_by_system
    /\ \E to_file \in BOOLEAN :
         Exit(0, IF to_file THEN WrittenMessage ELSE "")
    /\ UNCHANGED <<inputVars, failed_at, run, previous, optVars, constructed,
                   results_by_system, pathVars, signVars, pulls, oracle,
                   queries, scanVars, locVars, yielded>>

\* The exception of a failing get_sign call reaches the except clauses of
\* `ranges`: a FileNotFoundError or ValueError is echoed, any other
\* exception leaves the command with a traceback.
RangesCatches ==
    /\ pc = "failed"
    /\ \E caught \in BOOLEAN :
         Exit(1, IF caught THEN NotFoundMessage ELSE Traceback)
    /\ UNCHANGED <<inputVars, failed_at, run, previous, optVars, constructed,
                   results_by_system, written, pathVars, signVars, pulls,
                   oracle, queries, scanVars, locVars, yielded>>

\* ---------------------------------------------------------------- specifications
\* The `ranges` command, get_ephemeris_path and from_longitude are not
\* running.
AtRest ==
    /\ argv_ok = TRUE
    /\ systems = << >>
    /\ precision = "day"
    /\ last_precision = "none"
    /\ results_by_system = << >>
    /\ written = << >>
    /\ exit_status = NoStatus
    /\ stderr = ""
    /\ constructed = 0
    /\ files = << >>
    /\ ephe_path = NoPath
    /\ longitude = 0
    /\ sign = NoSign

\* Mutant: the body starts running when find_ranges is called.
FreshCallEager ==
    /\ pc = "scan"
    /\ current = start_date
    /\ in_sign = FALSE
    /\ entry_date = NoDate
    /\ before = 0 /\ after = 0
    /\ precision_minutes = Config_precision_minutes
    /\ ret = "none"
    /\ call = [before |-> 0, after |-> 0]
    /\ result = NoDate
    /\ yielded = << >>
    /\ queries = << >>
    /\ pulls = 0
    /\ failed_at = NoDate
    /\ run = 1
    /\ previous = << >>
    /\ AtRest

\* The locals of a generator whose body has not started.
FreshCall ==
    /\ pc = "created"
    /\ current = start_date
    /\ in_sign = FALSE
    /\ entry_date = NoDate
    /\ before = 0 /\ after = 0
    /\ precision_minutes = Config_precision_minutes
    /\ ret = "none"
    /\ call = [before |-> 0, after |-> 0]
    /\ result = NoDate
    /\ yielded = << >>
    /\ queries = << >>
    /\ pulls = 0
    /\ failed_at = NoDate
    /\ run = 1
    /\ previous = << >>
    /\ AtRest

\* find_ranges called on any window of at most MaxWindowSteps coarse steps
\* (with or without a time of day), with any step and either precision; the
\* oracle's answer at the end of the window is determined up front, its other
\* answers when asked for.  The oracle under test answers the target and one
\* kind of other answer: another sign (as the tropical and sidereal
\* calculators do) or no position.
Codomains == {Signs, {target_sign, None}}

Init ==
    /\ start_date \in 0 .. (DayTicks - 1)
    /\ step_days \in 1 .. MaxStepDays
    /\ end_date \in (start_date + 1) .. (start_date + MaxWindowSteps * step)
    /\ codomain \in Codomains
    /\ Config_precision_minutes \in BOOLEAN
    /\ oracle \in [{end_date} -> codomain]
    /\ FreshCall

Scan ==
    \/ CoarseSample
    \/ EntryFound
    \/ ExitFound
    \/ LoopEndInSign
    \/ LoopEndOutside
    \/ FinalExitFound

Locate ==
    \/ BisectEntry
    \/ ReturnEntry
    \/ BisectExit
    \/ ReturnExit

Consume ==
    \/ PullFirst
    \/ PullNext
    \/ PullLast
    \/ Stop

Next == Scan \/ Locate \/ Consume

Spec == Init /\ [][Next]_vars

\* One of the locators called on its own, on any bracket before < after
\* (aligned or not) and with either precision; lines 130-131 / 166-167 have
\* run.  Nothing of the oracle is determined yet.
InitLocate ==
    /\ pc \in {"entry", "exit"}
    /\ before \in 0 .. (DayTicks - 1)
    /\ after \in (before + 1) .. (before + MaxBracketDays * DayTicks)
    /\ call = [before |-> before, after |-> after]
    /\ precision_minutes \in BOOLEAN
    /\ Config_precision_minutes = precision_minutes
    /\ codomain = Answers
    /\ oracle = [x \in {} |-> None]
    /\ start_date = before
    /\ end_date = after
    /\ step_days = 1
    /\ current = after
    /\ in_sign = (pc = "exit")
    /\ entry_date = NoDate
    /\ ret = "none"
    /\ result = NoDate
    /\ yielded = << >>
    /\ queries = << >>
    /\ pulls = 0
    /\ failed_at = NoDate
    /\ run = 1
    /\ previous = << >>
    /\ AtRest

SpecLocate == InitLocate /\ [][Locate]_vars

\* find_ranges consumed to the end, as list(finder.find_ranges(...)) does:
\* the consumer calls next() whenever the generator is suspended, and the
\* interpreter runs the body whenever it is not.  The oracle is the
\* tropical or the sidereal calculator, which answer a sign at every instant.
InitLive == Init /\ codomain = Signs

NextLive == Scan \/ Locate \/ PullFirst \/ PullNext \/ PullLast

SpecLive == InitLive /\ [][NextLive]_vars /\ WF_vars(NextLive)

\* find_ranges against an oracle that can raise instead of answering.
NextFailure == Next \/ OracleFails

SpecFailure == Init /\ [][NextFailure]_vars

\* The `ranges` command on any two dates with a minute resolution (in
\* either order, or equal), for one system or for the three of `all`.
InitRanges ==
    /\ start_date \in {t \in 0 .. (DayTicks - 1) : t % MinuteTicks = 0}
    /\ step_days \in 1 .. MaxStepDays
    /\ end_date \in {t \in 0 .. (start_date + step) : t % MinuteTicks = 0}
    /\ codomain \in Codomains
    /\ Config_precision_minutes \in BOOLEAN
    /\ oracle = [x \in {} |-> None]
    /\ pc = "ranges"
    /\ current = start_date
    /\ in_sign = FALSE
    /\ entry_date = NoDate
    /\ before = 0 /\ after = 0
    /\ precision_minutes = Config_precision_minutes
    /\ ret = "none"
    /\ call = [before |-> 0, after |-> 0]
    /\ result = NoDate
    /\ yielded = << >>
    /\ queries = << >>
    /\ pulls = 0
    /\ failed_at = NoDate
    /\ run = 1
    /\ previous = << >>
    /\ argv_ok \in BOOLEAN
    /\ systems \in {SystemsOf(option) : option \in SystemOptions}
    /\ precision = IF Config_precision_minutes THEN "minute" ELSE "day"
    /\ last_precision = "none"
    /\ results_by_system = << >>
    /\ written = << >>
    /\ exit_status = NoStatus
    /\ stderr = ""
    /\ constructed = 0
    /\ files = << >>
    /\ ephe_path = NoPath
    /\ longitude = 0
    /\ sign = NoSign

NextRanges ==
    \/ Ranges
    \/ RunRangeSearch
    \/ NextLive
    \/ OracleFails
    \/ SearchReturns
    \/ RangesOutput
    \/ RangesCatches

SpecRanges == InitRanges /\ [][NextRanges]_vars

\* ---------------------------------------------------------------- main group
\* Mutant: the precision flag is set like the ephemeris path, only when the
\* option asks for it.
MainSetsOnlyMinute ==
    /\ pc \in {"main", "exited"}
    /\ \E option \in {"day", "minute"}, ephe_given \in BOOLEAN :
         /\ files' = IF ephe_given THEN [files EXCEPT !.explicit = "dir"]
                      ELSE files
         /\ Config_precision_minutes' =
              (IF option = "minute" THEN TRUE ELSE Config_precision_minutes)
         /\ precision' = option
    /\ last_precision' = IF pc = "main" THEN "none" ELSE precision
    /\ exit_status' = NoStatus
    /\ stderr' = ""
    /\ constructed' = 0
    /\ results_by_system' = << >>
    /\ written' = << >>
    /\ oracle' = [x \in {} |-> None]
    /\ queries' = << >>
    /\ pulls' = 0
    /\ failed_at' = NoDate
    /\ current' = start_date
    /\ in_sign' = FALSE
    /\ entry_date' = NoDate
    /\ yielded' = << >>
    /\ before' = 0 /\ after' = 0
    /\ precision_minutes' = FALSE
    /\ ret' = "none"
    /\ call' = [before |-> 0, after |-> 0]
    /\ result' = NoDate
    /\ pc' = "ranges"
    /\ UNCHANGED <<start_date, end_date, step_days, codomain, argv_ok, systems,
                   run, previous, ephe_path, signVars>>

\* The callback of the `main` group, run by every invocation before its
\* command: the ephemeris path is set when --ephe-path is given, the
\* precision flag is set from --precision whatever the option's value, and
\* the command starts with nothing searched, echoed or exited yet and no
\* locator frame alive.  An
\* invocation follows another in the same process (as under a test runner),
\* with the same arguments but for the two options of the group.
Main ==
    /\ pc \in {"main", "exited"}
    /\ \E option \in {"day", "minute"}, ephe_given \in BOOLEAN :
         /\ files' = IF ephe_given THEN [files EXCEPT !.explicit = "dir"]
                      ELSE files
         /\ Config_precision_minutes' = (option = "minute")
         /\ precision' = option
    /\ last_precision' = IF pc = "main" THEN "none" ELSE precision
    /\ exit_status' = NoStatus
    /\ stderr' = ""
    /\ constructed' = 0
    /\ results_by_system' = << >>
    /\ written' = << >>
    /\ oracle' = [x \in {} |-> None]
    /\ queries' = << >>
    /\ pulls' = 0
    /\ failed_at' = NoDate
    /\ current' = start_date
    /\ in_sign' = FALSE
    /\ entry_date' = NoDate
    /\ yielded' = << >>
    /\ before' = 0 /\ after' = 0
    /\ precision_minutes' = FALSE
    /\ ret' = "none"
    /\ call' = [before |-> 0, after |-> 0]
    /\ result' = NoDate
    /\ pc' = "ranges"
    /\ UNCHANGED <<start_date, end_date, step_days, codomain, argv_ok, systems,
                   run, previous, ephe_path, signVars>>

\* The machines of the command-line runs: nothing set and no ephemeris but,
\* on some, in the working directory.
CliMachines ==
    {f \in Machines :
        /\ f.explicit = "unset" /\ f.env = "unset"
        /\ \A i \in 1 .. (Len(candidates) - 1) : f[candidates[i]] = "missing"}

\* A fresh process: Config holds its class defaults and `main` has not run.
InitCli ==
    /\ start_date \in {t \in 0 .. (DayTicks - 1) : t % MinuteTicks = 0}
    /\ step_days \in 1 .. MaxStepDays
    /\ end_date \in {t \in 0 .. (start_date + step) : t % MinuteTicks = 0}
    /\ codomain \in Codomains
    /\ Config_precision_minutes = FALSE
    /\ oracle = [x \in {} |-> None]
    /\ pc = "main"
    /\ current = start_date
    /\ in_sign = FALSE
    /\ entry_date = NoDate
    /\ before = 0 /\ after = 0
    /\ precision_minutes = FALSE
    /\ ret = "none"
    /\ call = [before |-> 0, after |-> 0]
    /\ result = NoDate
    /\ yielded = << >>
    /\ queries = << >>
    /\ pulls = 0
    /\ failed_at = NoDate
    /\ run = 1
    /\ previous = << >>
    /\ argv_ok \in BOOLEAN
    /\ systems \in {SystemsOf(option) : option \in {"tropical", "all"}}
    /\ precision = "day"
    /\ last_precision = "none"
    /\ results_by_system = << >>
    /\ written = << >>
    /\ exit_status = NoStatus
    /\ stderr = ""
    /\ constructed = 0
    /\ files \in CliMachines
    /\ ephe_path = NoPath
    /\ longitude = 0
    /\ sign = NoSign

NextCli ==
    \/ Main
    \/ NextRanges

SpecCli == InitCli /\ [][NextCli]_vars

\* No search is under way: the variables of find_ranges hold the values of
\* a generator never created.
NoSearch ==
    /\ start_date = 0
    /\ end_date = 1
    /\ step_days = 1
    /\ codomain = Signs
    /\ Config_precision_minutes = FALSE
    /\ oracle = [x \in {} |-> None]
    /\ current = 0
    /\ in_sign = FALSE
    /\ entry_date = NoDate
    /\ before = 0 /\ after = 0
    /\ precision_minutes = FALSE
    /\ ret = "none"
    /\ call = [before |-> 0, after |-> 0]
    /\ result = NoDate
    /\ yielded = << >>
    /\ queries = << >>
    /\ pulls = 0
    /\ failed_at = NoDate
    /\ run = 1
    /\ previous = << >>

\* get_ephemeris_path called on any machine.
InitPath ==
    /\ NoSearch
    /\ pc = "get_ephemeris_path"
    /\ files \in Machines
    /\ ephe_path = NoPath
    /\ argv_ok = TRUE
    /\ systems = << >>
    /\ precision = "day"
    /\ last_precision = "none"
    /\ results_by_system = << >>
    /\ written = << >>
    /\ exit_status = NoStatus
    /\ stderr = ""
    /\ constructed = 0
    /\ longitude = 0
    /\ sign = NoSign

SpecPath == InitPath /\ [][GetEphemerisPath]_vars

\* from_longitude called on any float from more than a turn below zero to
\* more than two turns above.
InitSign ==
    /\ NoSearch
    /\ pc = "from_longitude"
    /\ longitude \in
          {v \in (-(FullCircle + SignWidth) * DegreeUnits) ..
                    ((2 * FullCircle + SignWidth) * DegreeUnits) : IsFloat(v)}
    /\ sign = NoSign
    /\ argv_ok = TRUE
    /\ systems = << >>
    /\ precision = "day"
    /\ last_precision = "none"
    /\ results_by_system = << >>
    /\ written = << >>
    /\ exit_status = NoStatus
    /\ stderr = ""
    /\ constructed = 0
    /\ files = << >>
    /\ ephe_path = NoPath

SpecSign == InitSign /\ [][FromLongitude]_vars

\* find_ranges for Planet.MERCURY, whose search_step_days is 5: a step that
\* is not a power of two times the day, so that its halves fall at other
\* times of day than the samples.
MercuryStepDays == 5

InitMercury ==
    /\ start_date \in 0 .. (DayTicks - 1)
    /\ step_days = MercuryStepDays
    /\ end_date \in (start_date + 1) .. (start_date + MaxWindowSteps * step)
    /\ codomain \in Codomains
    /\ Config_precision_minutes \in BOOLEAN
    /\ oracle \in [{end_date} -> codomain]
    /\ FreshCall

SpecMercury == InitMercury /\ [][Next]_vars

\* find_ranges consumed by code that also sets the precision flag.
NextConfig == Next \/ SetPrecision

SpecConfig == Init /\ [][NextConfig]_vars

\* Two searches with the same arguments, one after the other, in a process
\* whose precision flag can be set in between.
NextAgain == Next \/ SetPrecision \/ SearchAgain

SpecAgain == Init /\ [][NextAgain]_vars

\* The synthetic two-label oracle of the re-entry scenario: its answers at
\* the eight coarse samples are fixed, the others are determined when asked.
ReentryLabels == <<"A", "A", "B", "B", "A", "A", "B", "B">>

InitReentry ==
    /\ start_date \in 0 .. (DayTicks - 1)
    /\ step_days \in 1 .. MaxStepDays
    /\ end_date \in (start_date + 7 * step) .. (start_date + 8 * step - 1)
    /\ codomain = Signs
    /\ Config_precision_minutes \in BOOLEAN
    /\ oracle = [t \in {start_date + (i - 1) * step : i \in 1 .. 8} |->
                   ReentryLabels[((t - start_date) \div step) + 1]]
    /\ FreshCall

\* The last sample of the scenario is in the sign, so the loop never ends
\* outside it and the first sample never enters.
NextReentry ==
    \/ CoarseSample
    \/ EntryFound
    \/ ExitFound
    \/ LoopEndInSign
    \/ FinalExitFound
    \/ Locate
    \/ Consume

SpecReentry == InitReentry /\ [][NextReentry]_vars

\* ---------------------------------------------------------------- properties
\* What the oracle is known to answer, said without the code's own test.
Determined(t) == t \in DOMAIN oracle
IsTarget(t) == Determined(t) /\ oracle[t] = target_sign
NotTarget(t) == Determined(t) /\ oracle[t] # target_sign

OfKind(kind) == SelectSeq(queries, LAMBDA q : q.kind = kind)
CoarseInstants ==
    LET c == OfKind("coarse") IN [i \in 1 .. Len(c) |-> c[i].at]
CoarseLabels ==
    LET c == OfKind("coarse") IN [i \in 1 .. Len(c) |-> oracle[c[i].at]]

\* The precision quantum of a search.
Quantum(pm) == IF pm THEN MinuteTicks ELSE DayTicks
Aligned(t, pm) == t % Quantum(pm) = 0
Last(s) == s[Len(s)]
Dist(x, y) == IF x >= y THEN x - y ELSE y - x

\* C1 - Re-entry separation: when the labels at the successive coarse samples
\* are A, A, B, B, A, A, B, B, a complete search for B has yielded exactly two
\* ranges, and the first ends no later than the second starts.
C1_ReentrySeparation ==
    (pc = "done" /\ CoarseLabels = ReentryLabels) =>
        /\ Len(yielded) = 2
        /\ yielded[1].end <= yielded[2].start

C1_Witness ==
    /\ pc = "done"
    /\ CoarseLabels = ReentryLabels
    /\ Len(yielded) = 2
    /\ Len(OfKind("bisect")) > 0
    /\ start_date % DayTicks # 0

\* C2 - Ordering and non-overlap: the ranges yielded so far have
\* non-decreasing starts, and each ends no later than the next one starts.
C2_OrderedDisjoint ==
    \A i \in 1 .. (Len(yielded) - 1) :
        /\ yielded[i].start <= yielded[i + 1].start
        /\ yielded[i].end <= yielded[i + 1].start

C2_Witness ==
    /\ Len(yielded) >= 2
    /\ start_date % DayTicks # 0
    /\ Len(OfKind("bisect")) >= 2

\* C3 - No zero-length or inverted range: every yielded range has
\* start < end.
C3_NoEmptyRange ==
    \A i \in 1 .. Len(yielded) : yielded[i].start < yielded[i].end

\* C4 - Maximality / non-adjacency: consecutive yielded ranges are separated
\* by a gap, the earlier one ends strictly before the later one starts.
C4_StrictGap ==
    \A i \in 1 .. (Len(yielded) - 1) : yielded[i].end < yielded[i + 1].start

C4_Witness ==
    /\ Len(yielded) >= 2
    /\ yielded[2].start - yielded[1].end <= DayTicks
    /\ Len(OfKind("bisect")) >= 2

\* C5 - Start edge: when the oracle answers the target at window.start, a
\* complete search has yielded at least one range, and the first range
\* yielded starts at window.start exactly.
C5_StartEdge ==
    IsTarget(start_date) =>
        /\ pc = "done" => Len(yielded) >= 1
        /\ Len(yielded) >= 1 => yielded[1].start = start_date

C5_Witness ==
    /\ pc = "done"
    /\ IsTarget(start_date)
    /\ Len(yielded) >= 1
    /\ ~Aligned(start_date, Config_precision_minutes)

\* C6 (as claimed) - End edge: when the oracle answers the target at
\* window.end, a complete search has yielded at least one range and the last
\* one ends at window.end exactly.
C6_EndEdge ==
    (pc = "done" /\ IsTarget(end_date)) =>
        /\ Len(yielded) >= 1
        /\ Last(yielded).end = end_date

\* C6 (amended) - End edge: when the oracle answers the target at window.end
\* and at the last coarse sample, a complete search has yielded at least one
\* range and the last one ends at window.end exactly.
C6_EndEdgeInside ==
    (/\ pc = "done"
     /\ IsTarget(end_date)
     /\ IsTarget(Last(CoarseInstants))) =>
        /\ Len(yielded) >= 1
        /\ Last(yielded).end = end_date

C6_Witness ==
    /\ pc = "done"
    /\ IsTarget(end_date)
    /\ IsTarget(Last(CoarseInstants))
    /\ Last(CoarseInstants) < end_date
    /\ ~Aligned(end_date, Config_precision_minutes)
    /\ Last(yielded).end = end_date

\* The single-transition oracles that agree with every answer determined in
\* the bracket of the running call.  T is the first instant of the later
\* side, so the transition itself lies between T - 1 and T.
InBracket == {t \in DOMAIN oracle : call.before <= t /\ t <= call.after}
Transitions == (call.before + 1) .. call.after
OneEntryAt(T) == \A t \in InBracket : (oracle[t] = target_sign) <=> (t >= T)
OneExitAt(T) == \A t \in InBracket : (oracle[t] = target_sign) <=> (t < T)

\* C7 - Entry boundary tightness: on a bracket with exactly one transition
\* into the target, the instant _find_entry_point returns is within one
\* quantum of the transition.
C7_EntryTight ==
    pc = "entry_ret" =>
        \A T \in Transitions :
            OneEntryAt(T) =>
                /\ Dist(result, T) <= Quantum(precision_minutes)
                /\ Dist(result, T - 1) <= Quantum(precision_minutes)

C7_Witness ==
    /\ pc = "entry_ret"
    /\ Len(OfKind("bisect")) >= 2
    /\ \E T \in Transitions : OneEntryAt(T) /\ result # T
    /\ \E i, j \in 1 .. Len(queries) :
          IsTarget(queries[i].at) /\ NotTarget(queries[j].at)

\* C8 - Exit boundary tightness: on a bracket with exactly one transition
\* out of the target, the instant _find_exit_point returns is within one
\* quantum of the transition (of its nearer side, T - 1).
C8_ExitTight ==
    pc = "exit_ret" =>
        \A T \in Transitions :
            OneExitAt(T) =>
                Dist(result, T - 1) <= Quantum(precision_minutes)

\* C9 (as claimed) - Confirmed-side bias: on a one-transition bracket the
\* instant _find_entry_point returns is at or after the entry (the oracle
\* matches there), and the instant _find_exit_point returns is before the
\* exit and not before the bracket's before (the oracle matches there).
C9_ConfirmedSide ==
    /\ pc = "entry_ret" =>
         \A T \in Transitions : OneEntryAt(T) => T <= result
    /\ pc = "exit_ret" =>
         \A T \in Transitions :
            OneExitAt(T) => (call.before <= result /\ result < T)

\* C9 (amended) - Confirmed-side bias: on a one-transition bracket the instant
\* the bisection of _find_entry_point settles on (its final after) is at or
\* after the entry, and the instant returned is that instant truncated: not
\* later than it and less than one quantum before the entry.  The instant
\* _find_exit_point returns is before the exit, and is not before the
\* bracket's before when that before is aligned to the quantum.
C9_ConfirmedBeforeTruncation ==
    /\ pc = "entry_ret" =>
         \A T \in Transitions :
            OneEntryAt(T) =>
                /\ T <= after
                /\ result <= after
                /\ T - result < Quantum(precision_minutes)
    /\ pc = "exit_ret" =>
         \A T \in Transitions :
            OneExitAt(T) =>
                /\ result < T
                /\ Aligned(call.before, precision_minutes) => call.before <= result

C9_Witness ==
    /\ pc = "entry_ret"
    /\ Len(OfKind("bisect")) >= 1
    /\ \E T \in Transitions : OneEntryAt(T) /\ result < T

\* C10 - No-match: as long as the oracle has answered the target at no
\* instant, nothing is yielded and no locator has asked anything.
C10_NoMatch ==
    (\A t \in DOMAIN oracle : oracle[t] # target_sign) =>
        /\ yielded = << >>
        /\ Len(OfKind("bisect")) = 0
        /\ Len(OfKind("final")) = 0

C10_Witness ==
    /\ pc = "done"
    /\ \A t \in DOMAIN oracle : oracle[t] # target_sign
    /\ Len(OfKind("coarse")) >= 3
    /\ \E t \in DOMAIN oracle : oracle[t] = None

\* The get_sign call made by a step, and the answer it got.
Asks == Len(queries') = Len(queries) + 1
Asked == Last(queries')
Answer == oracle'[Asked.at]

\* What the program does on an answer that is not the target, said from the
\* state the call was made in: outside the sign the scan just advances, no
\* range is opened and nothing is yielded; inside the sign the exit locator
\* is called on the last coarse step; a bisection of an entry moves `before`
\* to the midpoint, a bisection of an exit moves `after` to it; at the end
\* of the window the exit locator is called up to the window end.
OtherLabelEffect ==
    /\ (Asked.kind = "coarse" /\ ~in_sign) =>
          /\ pc' = "scan"
          /\ current' = current + step
          /\ in_sign' = FALSE
          /\ entry_date' = entry_date
          /\ yielded' = yielded
    /\ (Asked.kind = "coarse" /\ in_sign) =>
          /\ pc' = "exit"
          /\ before' = current - step
          /\ after' = current
          /\ yielded' = yielded
    /\ (Asked.kind = "bisect" /\ pc = "entry") =>
          /\ pc' = "entry"
          /\ before' = Asked.at
          /\ after' = after
    /\ (Asked.kind = "bisect" /\ pc = "exit") =>
          /\ pc' = "exit"
          /\ before' = before
          /\ after' = Asked.at
    /\ Asked.kind = "final" =>
          /\ pc' = "exit"
          /\ after' = end_date
          /\ yielded' = yielded
    /\ pc' # "failed"

\* C11 - Undefined classification: a step whose get_sign call (coarse
\* sample, bisection midpoint or end re-check) is answered with no position
\* does exactly what a step answered with a sign other than the target does:
\* it opens no range, it closes the open one, and the search goes on.
C11_NoneIsOtherLabel ==
    [][(Asks /\ Answer # target_sign) => OtherLabelEffect]_vars

C11_Witness ==
    /\ pc = "yielded"
    /\ oracle[current] = None
    /\ \E i \in 1 .. Len(queries) :
         /\ queries[i].kind = "bisect"
         /\ oracle[queries[i].at] = None
    /\ \E i \in 1 .. Len(queries) :
         /\ queries[i].kind = "coarse"
         /\ queries[i].at < current
         /\ oracle[queries[i].at] = None

\* C12 - Minimum window: on a window of exactly one quantum, with the target
\* answered at every instant asked for, the complete search has yielded
\* exactly one range, from the window start to the window end, whatever the
\* step.
C12_MinimumWindow ==
    (/\ pc = "done"
     /\ end_date = start_date + Quantum(Config_precision_minutes)
     /\ \A t \in DOMAIN oracle : oracle[t] = target_sign) =>
        yielded = <<[start |-> start_date, end |-> end_date,
                     sign |-> target_sign]>>

C12_Witness ==
    /\ pc = "done"
    /\ end_date = start_date + Quantum(Config_precision_minutes)
    /\ \A t \in DOMAIN oracle : oracle[t] = target_sign
    /\ Len(OfKind("coarse")) = 2
    /\ start_date % MinuteTicks # 0
    /\ yielded # << >>

\* C13 - Determinism: a second complete search with the same arguments
\* against the same oracle has yielded the sequence the first one yielded.
C13_SameSequence ==
    (run = 2 /\ pc = "done") => yielded = previous

\* C14 - One quantum per search: the precision the locators work with (gap
\* of the bisection and truncation of the result) is the one in force when
\* the search started, at every locator call of the search.
C14_OneQuantum ==
    [][run' = run => precision_minutes' = precision_minutes]_vars

\* The least k with q * 2^k >= w: ceil(log2(w / q)), and 0 when w <= q.
RECURSIVE CeilLog2(_, _)
CeilLog2(w, q) == IF w <= q THEN 0 ELSE 1 + CeilLog2(w, 2 * q)

\* The halvings made so far by the locator call under way.
Halvings == Len(OfKind("bisect"))
LocatorReturned == pc \in {"entry_ret", "exit_ret"}

\* C15 - Locator termination: a locator called on before < after never makes
\* more than ceil(log2((after - before) / quantum)) halvings, and once it
\* has made that many its loop is over (none at all when the bracket is no
\* wider than the quantum), whatever the oracle answers.
C15_HalvingBound ==
    LET bound == CeilLog2(call.after - call.before,
                          Quantum(Config_precision_minutes))
    IN  /\ Halvings <= bound
        /\ (Halvings = bound /\ ~LocatorReturned) =>
              after - before <= Quantum(Config_precision_minutes)

C15_Witness ==
    /\ LocatorReturned
    /\ Halvings = 3
    /\ Halvings = CeilLog2(call.after - call.before,
                           Quantum(Config_precision_minutes))
    /\ (call.after - call.before) % 2 = 1
    /\ \E i \in 1 .. Len(queries) : oracle[queries[i].at] = None

\* C16 - Quantum alignment: whatever the oracle answers (one transition in
\* the bracket, several or none), the instant a locator returns is a whole
\* day in day mode and a whole minute in minute mode.
C16_ResultAligned ==
    LocatorReturned => Aligned(result, Config_precision_minutes)

C16_Witness ==
    /\ LocatorReturned
    /\ Halvings >= 2
    /\ ~Aligned(call.before, Config_precision_minutes)
    /\ ~Aligned(call.after, Config_precision_minutes)
    /\ \A t \in DOMAIN oracle : oracle[t] # target_sign

\* C17 - Result inside the bracket, as claimed: for every bracket
\* before < after, aligned or not, before <= result <= after.
C17_InsideBracket ==
    LocatorReturned => (call.before <= result /\ result <= call.after)

\* C17, amended: the result never exceeds `after` and is less than a quantum
\* below `before`; it is at or after `before` when `before` is aligned to
\* the quantum.
C17_InsideAlignedBracket ==
    LocatorReturned =>
        /\ result <= call.after
        /\ call.before - result < Quantum(Config_precision_minutes)
        /\ Aligned(call.before, Config_precision_minutes) =>
              call.before <= result

C17_Witness ==
    /\ LocatorReturned
    /\ Halvings >= 1
    /\ Aligned(call.before, Config_precision_minutes)
    /\ ~Aligned(call.after, Config_precision_minutes)
    /\ result = call.before

\* C18 - Oracle failure is fatal: once a get_sign call has raised, the
\* generator is finished by that exception; the failed call is the last call
\* ever made (it is not repeated and none follows), and the ranges yielded
\* are, from the failing step on, the ones yielded before it.
C18_FailureFatal ==
    /\ [](failed_at # NoDate =>
            /\ pc = "failed"
            /\ Last(queries).at = failed_at)
    /\ [][failed_at' # NoDate =>
            /\ yielded' = yielded
            /\ (failed_at # NoDate => queries' = queries)]_vars

C18_Witness ==
    /\ pc = "failed"
    /\ Len(yielded) >= 1
    /\ Last(queries).kind = "bisect"
    /\ Len(OfKind("coarse")) >= 3

\* The coarse samples at which an exit is detected: the label is not the
\* target and the label of the sample before was.
ExitSamples ==
    LET lab == CoarseLabels
    IN  {i \in 2 .. Len(lab) :
            lab[i] # target_sign /\ lab[i - 1] = target_sign}

\* The position in queries of the last coarse sample.
LastCoarse ==
    CHOOSE k \in 1 .. Len(queries) :
        /\ queries[k].kind = "coarse"
        /\ \A j \in (k + 1) .. Len(queries) : queries[j].kind # "coarse"

\* C19 - Incremental production: when a coarse sample later than an exit
\* sample has been asked for, the range closed at that exit sample has
\* already been yielded; and when the generator is suspended at a yield of
\* the loop, the last coarse sample c is the exit sample of the range just
\* yielded and everything asked for since is a bisection midpoint strictly
\* between c - step and c.
C19_YieldBeforeNextSample ==
    LET exits == ExitSamples
        n == Len(OfKind("coarse"))
    IN  /\ \A i \in exits :
              i < n => Len(yielded) >= Cardinality({j \in exits : j <= i})
        /\ pc = "yielded" =>
              LET k == LastCoarse
                  c == queries[k].at
              IN  /\ n \in exits
                  /\ Len(yielded) = Cardinality(exits)
                  /\ \A j \in (k + 1) .. Len(queries) :
                        /\ queries[j].kind = "bisect"
                        /\ c - step < queries[j].at
                        /\ queries[j].at < c

C19_Witness ==
    /\ Len(CoarseInstants) = 3
    /\ 2 \in ExitSamples
    /\ Len(yielded) = 1
    /\ \E j \in 1 .. (LastCoarse - 1) :
          /\ queries[j].kind = "bisect"
          /\ queries[j].at > CoarseInstants[1]

\* C20 - Pull-based laziness and prefix cancellation: nothing is asked of
\* the oracle before the first next(); every get_sign call is made while the
\* consumer waits for the element after the ones already yielded (so none
\* between a yield and the next next()); and once the consumer has dropped
\* the generator nothing is asked any more.
C20_PullDriven ==
    /\ [](pulls = 0 => queries = << >>)
    /\ [][Asks => (pulls = Len(yielded) + 1 /\ pc # "closed")]_vars
    /\ [][pc = "closed" => (queries' = queries /\ yielded' = yielded)]_vars

C20_Witness ==
    /\ pc = "closed"
    /\ pulls = 1
    /\ Len(yielded) = 1
    /\ current + step <= end_date
    /\ Len(OfKind("bisect")) >= 1

\* C21 - Finite sequence: a consumer that keeps pulling reaches the end of
\* the sequence, and the ranges yielded are never more than the coarse
\* samples taken.
C21_FiniteSequence ==
    /\ <>(pc = "done")
    /\ [](Len(yielded) <= Len(OfKind("coarse")))

C21_Witness ==
    /\ pc = "done"
    /\ Len(yielded) = 2
    /\ Len(OfKind("coarse")) = 3
    /\ Len(OfKind("bisect")) >= 2
    /\ step_days = MaxStepDays

FinalBefore(j) == \E i \in 1 .. (j - 1) : queries[i].kind = "final"

\* C22 - Bisection stays in the current coarse window: whenever the query
\* made last is a midpoint, it lies strictly between c - step and c, where c
\* is the last coarse sample asked for, or, once the end re-check has been
\* made, strictly between c and the window end; so it is inside the window.
\* (The history only grows, so every midpoint is the last query of some
\* state.)
C22_BisectionInWindow ==
    (queries # << >> /\ Last(queries).kind = "bisect") =>
        LET c == Last(OfKind("coarse")).at
            t == Last(queries).at
        IN  /\ IF Len(OfKind("final")) > 0
                 THEN c < t /\ t < end_date
                 ELSE c - step < t /\ t < c
            /\ start_date <= t /\ t <= end_date

C22_Witness ==
    /\ pc = "done"
    /\ \E j \in 1 .. Len(queries) :
          /\ queries[j].kind = "bisect"
          /\ FinalBefore(j)
    /\ \E j \in 1 .. Len(queries) :
          /\ queries[j].kind = "bisect"
          /\ ~FinalBefore(j)
    /\ start_date % MinuteTicks # 0

\* The coarse samples, after the first, at which an entry is detected: the
\* label is the target and the label of the sample before was not.
EntrySamples ==
    LET lab == CoarseLabels
    IN  {i \in 2 .. Len(lab) :
            lab[i] = target_sign /\ lab[i - 1] # target_sign}

\* The bisections of a complete run: one for each entry detected after the
\* first sample, one for each exit detected, and one when the end re-check
\* finds the sign left.
Bisections ==
    Cardinality(EntrySamples) + Cardinality(ExitSamples)
        + (IF Len(OfKind("final")) > 0 /\ NotTarget(end_date) THEN 1 ELSE 0)

\* C23 - Oracle-call bound: a complete run on a window of length W has made
\* at most floor(W / step) + 1 coarse queries, at most one end re-check, and
\* at most ceil(log2(step / quantum)) midpoint queries for each of its
\* bisections.
C23_CallBound ==
    pc = "done" =>
        /\ Len(OfKind("coarse")) <= ((end_date - start_date) \div step) + 1
        /\ Len(OfKind("final")) <= 1
        /\ Len(OfKind("bisect")) <=
              Bisections * CeilLog2(step, Quantum(Config_precision_minutes))

C23_Witness ==
    /\ pc = "done"
    /\ Bisections = 2
    /\ Len(OfKind("final")) = 1
    /\ Len(OfKind("coarse")) = 3
    /\ Len(OfKind("bisect")) >= 4
    /\ Len(OfKind("bisect")) =
          Bisections * CeilLog2(step, Quantum(Config_precision_minutes))

\* The coarse samples that start a maximal run of matching samples.
RunStarts ==
    LET lab == CoarseLabels
    IN  {i \in 1 .. Len(lab) :
            lab[i] = target_sign /\ (i = 1 \/ lab[i - 1] # target_sign)}

\* C27 - One interval per run of matching samples: a complete search has
\* yielded as many ranges as there are maximal runs of consecutive matching
\* coarse samples; and at every moment the runs started are the ranges
\* yielded, plus at most the one that is open.
C27_OneRangePerRun ==
    LET runs == Cardinality(RunStarts)
    IN  /\ Len(yielded) <= runs
        /\ runs <= Len(yielded) + 1
        /\ pc = "done" => Len(yielded) = runs

C27_Witness ==
    /\ pc = "done"
    /\ Cardinality(RunStarts) = 2
    /\ Len(yielded) = 2
    /\ Len(OfKind("final")) = 1
    /\ \E t \in DOMAIN oracle : oracle[t] = None

\* C28 - Scan state invariant: before the first coarse sample the scan is
\* outside (in_sign false, no entry recorded); between two coarse samples
\* in_sign is the membership of the last one, and an entry is recorded
\* exactly when in_sign is true; so an exit found in the loop, and the end of
\* the window reached inside the sign, always have an entry to yield with.
C28_ScanState ==
    /\ (pc \in {"created", "scan"} /\ Len(CoarseInstants) = 0) =>
          (~in_sign /\ entry_date = NoDate)
    /\ (pc = "scan" /\ Len(CoarseInstants) > 0) =>
          /\ in_sign = IsTarget(Last(CoarseInstants))
          /\ (entry_date # NoDate) = in_sign
    /\ (pc = "exit_ret" /\ ret = "loop") => entry_date # NoDate
    /\ pc \in {"yielded", "yielded_final"} =>
          Last(yielded).start = entry_date

C28_Witness ==
    /\ pc = "scan"
    /\ Len(CoarseInstants) = 3
    /\ in_sign
    /\ Len(yielded) = 1
    /\ entry_date > CoarseInstants[2]

\* C29 - Coarse sampling schedule: the coarse samples asked for so far are
\* window.start, window.start + step, window.start + 2 step, ... in this
\* order, each once and none after window.end; a complete search has asked
\* for all floor((window.end - window.start) / step) + 1 of them, so for
\* window.end itself when it is one of them.
C29_SamplingSchedule ==
    LET at == CoarseInstants
    IN  /\ \A i \in 1 .. Len(at) :
              /\ at[i] = start_date + (i - 1) * step_days * DayTicks
              /\ at[i] <= end_date
        /\ pc = "done" =>
              Len(at) = ((end_date - start_date) \div (step_days * DayTicks)) + 1

C29_Witness ==
    /\ pc = "done"
    /\ Len(CoarseInstants) = 3
    /\ Last(CoarseInstants) = end_date
    /\ step_days = MaxStepDays
    /\ Len(yielded) >= 1

\* C30 - Bracket precondition: while a locator called by find_ranges runs or
\* has just returned, the bracket it was called on is: for an entry, the
\* previous coarse sample (not matching) and the current one (matching); for
\* an exit, the previous coarse sample (matching) and the current one, or
\* the window end after the loop (not matching); and always
\* before < after <= before + step.
C30_BracketPrecondition ==
    LET at == CoarseInstants
        n == Len(at)
    IN  /\ pc \in {"entry", "entry_ret"} =>
              /\ n >= 2
              /\ call.before = at[n - 1]
              /\ call.after = at[n]
              /\ NotTarget(call.before)
              /\ IsTarget(call.after)
        /\ (pc \in {"exit", "exit_ret"} /\ ret = "loop") =>
              /\ n >= 2
              /\ call.before = at[n - 1]
              /\ call.after = at[n]
              /\ IsTarget(call.before)
              /\ NotTarget(call.after)
        /\ (pc \in {"exit", "exit_ret"} /\ ret = "final") =>
              /\ call.before = at[n]
              /\ call.after = end_date
              /\ IsTarget(call.before)
              /\ NotTarget(call.after)
        /\ pc \in {"entry", "entry_ret", "exit", "exit_ret"} =>
              /\ call.before < call.after
              /\ call.after - call.before <= step_days * DayTicks

C30_Witness ==
    /\ pc = "exit_ret"
    /\ ret = "final"
    /\ call.after - call.before < step_days * DayTicks
    /\ Len(OfKind("bisect")) >= 2
    /\ start_date % MinuteTicks # 0

\* C24 - Precondition on the window: with arguments that parse and a start
\* at or after the end, the `ranges` command does nothing but exit with
\* status 1 and the message about the order of the dates: no calculator is
\* constructed, no generator is created and the oracle is asked nothing.
C24_OrderRejected ==
    (argv_ok /\ start_date >= end_date) =>
        /\ pc \in {"ranges", "exited"}
        /\ constructed = 0
        /\ queries = << >>
        /\ pulls = 0
        /\ pc = "exited" => (exit_status = 1 /\ stderr = OrderMessage)

C24_Witness ==
    /\ pc = "exited"
    /\ argv_ok
    /\ start_date = end_date
    /\ exit_status = 1
    /\ stderr = OrderMessage
    /\ systems = AllSystems

\* The six documented places, in the documented order, and what makes each
\* of them usable.
Documented == <<"explicit", "env", "home", "usr_share", "usr_local", "cwd_ephe">>
ValidPlace(i) ==
    IF Documented[i] = "explicit" THEN files.explicit = "dir"
    ELSE IF Documented[i] = "env" THEN files.env = "dir"
    ELSE files[Documented[i]] = "se1"

\* C25 - Ephemeris path resolution order, as claimed: get_ephemeris_path
\* returns the first usable one of the six documented places, and raises
\* FileNotFoundError when none of the six is usable.
C25_ResolutionOrder ==
    pc = "path_returned" =>
        IF \E i \in 1 .. Len(Documented) : ValidPlace(i)
          THEN \E i \in 1 .. Len(Documented) :
                  /\ ValidPlace(i)
                  /\ \A j \in 1 .. (i - 1) : ~ValidPlace(j)
                  /\ ephe_path = Documented[i]
          ELSE ephe_path = "FileNotFoundError"

\* C26 - from_longitude, as claimed: for every longitude, negative or beyond
\* a turn included, the result is the sign whose thirty degrees hold the
\* longitude reduced modulo 360 (so a multiple of 30 belongs to the sign
\* that starts there).
C26_SignOfLongitude ==
    pc = "sign_returned" =>
        LET reduced == longitude % (FullCircle * DegreeUnits)
        IN  \E i \in 1 .. Len(SignNames) :
              /\ sign = SignNames[i]
              /\ longitude_start(i - 1) <= reduced
              /\ reduced < longitude_end(i - 1)

\* C31 - Bisection loop invariant: while _find_entry_point runs (and when it
\* returns) the oracle does not match at before and matches at after; while
\* _find_exit_point runs it matches at before and does not match at after.
\* Each iteration asks for the midpoint of the bracket, which lies strictly
\* inside it, and replaces exactly one endpoint by it: the bracket is nested
\* in the previous one and strictly narrower.
C31_Labels ==
    /\ pc \in {"entry", "entry_ret"} => (NotTarget(before) /\ IsTarget(after))
    /\ pc \in {"exit", "exit_ret"} => (IsTarget(before) /\ NotTarget(after))

C31_Iteration ==
    (pc \in {"entry", "exit"} /\ pc' = pc) =>
        LET mid == Last(queries').at
        IN  /\ Len(queries') = Len(queries) + 1
            /\ Last(queries').kind = "bisect"
            /\ before < mid /\ mid < after
            /\ Dist(mid - before, after - mid) <= 1
            /\ \/ (before' = mid /\ after' = after)
               \/ (before' = before /\ after' = mid)
            /\ before <= before' /\ after' <= after
            /\ after' - before' < after - before

C31_LoopInvariant == [] C31_Labels /\ [][C31_Iteration]_vars

C31_Witness ==
    /\ pc = "exit"
    /\ before # call.before
    /\ after # call.after
    /\ (after - before) % 2 = 1
    /\ after - before > MinuteTicks

\* C32 - End-of-window handling, as claimed.  In a complete search, with c
\* the last coarse sample: when the oracle matched at c and does not match
\* at window.end, the end re-check was made once, one range was yielded
\* after those of the loop, and its end is what _find_exit_point returned for
\* the bracket (c, window.end) and lies between c and window.end; when the
\* oracle matched at c and matches at window.end, the last range ends at
\* window.end and the re-check is the last query made; when the oracle did
\* not match at c, no range was yielded after those of the loop and no
\* re-check was made.
C32_EndOfWindow ==
    pc = "done" =>
        LET c == Last(CoarseInstants)
            loop == Cardinality(ExitSamples)
            finals == Len(OfKind("final"))
        IN  /\ (IsTarget(c) /\ NotTarget(end_date)) =>
                  /\ finals = 1
                  /\ Len(yielded) = loop + 1
                  /\ ret = "final"
                  /\ call = [before |-> c, after |-> end_date]
                  /\ Last(yielded).end = result
                  /\ c <= Last(yielded).end
                  /\ Last(yielded).end <= end_date
            /\ (IsTarget(c) /\ IsTarget(end_date)) =>
                  /\ finals = 1
                  /\ Len(yielded) = loop + 1
                  /\ Last(yielded).end = end_date
                  /\ Last(queries).kind = "final"
            /\ NotTarget(c) =>
                  /\ finals = 0
                  /\ Len(yielded) = loop

\* C33 - Coverage of matching samples, as claimed: in a complete search,
\* every coarse sample at which the oracle matched lies inside exactly one
\* yielded range, bounds included.
C33_MatchingSamplesCovered ==
    pc = "done" =>
        LET at == CoarseInstants
        IN  \A k \in 1 .. Len(at) :
                IsTarget(at[k]) =>
                    Cardinality({i \in 1 .. Len(yielded) :
                        yielded[i].start <= at[k] /\ at[k] <= yielded[i].end}) = 1

\* C34 - No non-matching sample inside a range, as claimed: no yielded range
\* contains, bounds included, a coarse sample at which the oracle did not
\* match.
C34_NoOtherSampleInside ==
    LET at == CoarseInstants
    IN  \A i \in 1 .. Len(yielded) :
            \A k \in 1 .. Len(at) :
                NotTarget(at[k]) =>
                    ~(yielded[i].start <= at[k] /\ at[k] <= yielded[i].end)

\* C35 - Ranges stay inside the window, as claimed: every yielded range
\* starts at or after window.start and ends at or before window.end.
C35_InsideWindow ==
    \A i \in 1 .. Len(yielded) :
        start_date <= yielded[i].start /\ yielded[i].end <= end_date

\* C32 (amended) - End-of-window handling: as claimed, except that the end
\* of the last range, being truncated to the quantum, is not later than
\* window.end and less than one quantum before the last coarse sample c; it
\* is not before c when c is aligned to the quantum.
C32_EndOfWindowFloored ==
    pc = "done" =>
        LET c == Last(CoarseInstants)
            loop == Cardinality(ExitSamples)
            finals == Len(OfKind("final"))
            pm == Config_precision_minutes
        IN  /\ (IsTarget(c) /\ NotTarget(end_date)) =>
                  /\ finals = 1
                  /\ Len(yielded) = loop + 1
                  /\ ret = "final"
                  /\ call = [before |-> c, after |-> end_date]
                  /\ Last(yielded).end = result
                  /\ c - Last(yielded).end < Quantum(pm)
                  /\ Aligned(c, pm) => c <= Last(yielded).end
                  /\ Last(yielded).end <= end_date
            /\ (IsTarget(c) /\ IsTarget(end_date)) =>
                  /\ finals = 1
                  /\ Len(yielded) = loop + 1
                  /\ Last(yielded).end = end_date
                  /\ Last(queries).kind = "final"
            /\ NotTarget(c) =>
                  /\ finals = 0
                  /\ Len(yielded) = loop

C32_Witness ==
    /\ pc = "done"
    /\ IsTarget(Last(CoarseInstants))
    /\ NotTarget(end_date)
    /\ Len(yielded) = 1
    /\ Last(yielded).end < Last(CoarseInstants)
    /\ Last(yielded).start < Last(yielded).end

\* C33 (amended) - Coverage of matching samples: in a complete search, every
\* coarse sample s at which the oracle matched belongs to exactly one yielded
\* range in this sense: start <= s and s is less than one quantum after end;
\* when s is aligned to the quantum, start <= s <= end for exactly one range.
C33_MatchingSamplesCoveredFloored ==
    pc = "done" =>
        LET at == CoarseInstants
            pm == Config_precision_minutes
        IN  \A k \in 1 .. Len(at) :
                IsTarget(at[k]) =>
                    /\ Cardinality({i \in 1 .. Len(yielded) :
                          /\ yielded[i].start <= at[k]
                          /\ at[k] - yielded[i].end < Quantum(pm)}) = 1
                    /\ Aligned(at[k], pm) =>
                          Cardinality({i \in 1 .. Len(yielded) :
                              /\ yielded[i].start <= at[k]
                              /\ at[k] <= yielded[i].end}) = 1

C33_Witness ==
    /\ pc = "done"
    /\ Len(yielded) = 1
    /\ Len(OfKind("final")) = 0
    /\ \E k \in 1 .. Len(CoarseInstants) :
          /\ IsTarget(CoarseInstants[k])
          /\ yielded[1].start < yielded[1].end
          /\ yielded[1].end < CoarseInstants[k]

\* C34 (amended) - Non-matching samples and ranges: a coarse sample t at which
\* the oracle did not match lies inside a yielded range (bounds included)
\* only within the quantum the range starts with: t - start is less than one
\* quantum, and t is the start itself when t is aligned to the quantum.
C34_OtherSampleOnlyAtStart ==
    LET at == CoarseInstants
        pm == Config_precision_minutes
    IN  \A i \in 1 .. Len(yielded) :
            \A k \in 1 .. Len(at) :
                (/\ NotTarget(at[k])
                 /\ yielded[i].start <= at[k]
                 /\ at[k] <= yielded[i].end) =>
                    /\ at[k] - yielded[i].start < Quantum(pm)
                    /\ Aligned(at[k], pm) => at[k] = yielded[i].start

C34_Witness ==
    /\ Len(yielded) = 1
    /\ Len(OfKind("bisect")) >= 2
    /\ \E k \in 1 .. Len(CoarseInstants) :
          /\ NotTarget(CoarseInstants[k])
          /\ yielded[1].start = CoarseInstants[k]
          /\ CoarseInstants[k] < yielded[1].end

\* C35 (amended) - Ranges and the window: every yielded range ends at or
\* before window.end and starts less than one quantum before window.start;
\* it starts at or after window.start when window.start is aligned to the
\* quantum.
C35_InsideFlooredWindow ==
    LET pm == Config_precision_minutes
    IN  \A i \in 1 .. Len(yielded) :
            /\ start_date - yielded[i].start < Quantum(pm)
            /\ Aligned(start_date, pm) => start_date <= yielded[i].start
            /\ yielded[i].end <= end_date

C35_Witness ==
    /\ Len(yielded) = 1
    /\ yielded[1].start < start_date
    /\ yielded[1].end = end_date
    /\ Len(OfKind("bisect")) >= 2

\* The least number of halvings that can bring a gap of w ticks down to q.
HalvingsTo(w, q) == CHOOSE k \in 0 .. w :
    /\ (w \div (2 ^ k)) <= q
    /\ \A j \in 0 .. (k - 1) : (w \div (2 ^ j)) > q

\* The midpoint queries made since the last coarse sample.
MidpointsSinceCoarse == Len(queries) - LastCoarse

\* C36 - Divergent precision, as claimed: in the day configuration, when the
\* first range of a search has had its entry and its exit located on a coarse
\* step each, one of the two locators has made the midpoint queries that
\* one-minute precision takes and the other has not.
C36_DivergentPrecision ==
    (/\ ~Config_precision_minutes
     /\ pc = "yielded"
     /\ Len(yielded) = 1
     /\ NotTarget(start_date)) =>
        LET nx == MidpointsSinceCoarse
            ne == Len(OfKind("bisect")) - nx
            k == HalvingsTo(step_days * DayTicks, MinuteTicks)
        IN  \/ (ne >= k /\ nx < k)
            \/ (nx >= k /\ ne < k)

\* C36 (amended) - Same precision: both locators work with the flag read
\* from Config when they were called; each asks for a midpoint exactly while
\* the gap is wider than the quantum of that flag (a minute if set, a day if
\* not) and returns as soon as it is not.
C36_Step ==
    pc \in {"entry", "exit"} =>
        IF after - before > Quantum(precision_minutes)
          THEN /\ pc' = pc
               /\ Len(queries') = Len(queries) + 1
               /\ Last(queries').kind = "bisect"
          ELSE /\ pc' = (IF pc = "entry" THEN "entry_ret" ELSE "exit_ret")
               /\ queries' = queries

C36_SamePrecision ==
    /\ [](pc \in {"entry", "exit"} => precision_minutes = Config_precision_minutes)
    /\ [][C36_Step]_vars

C36_Witness ==
    /\ ~Config_precision_minutes
    /\ pc = "yielded"
    /\ Len(yielded) = 1
    /\ NotTarget(start_date)
    /\ MidpointsSinceCoarse >= 1
    /\ Len(OfKind("bisect")) > MidpointsSinceCoarse
    /\ after - before > MinuteTicks

\* ---------------------------------------------------------------- C37
\* C37: the precision flag does not leak between the invocations of one
\* process.  Once `main` has run, the flag in Config is what the --precision
\* option of this invocation says, whatever the invocation before asked
\* for; a locator that runs works with the option's precision, and the
\* instant it returns lies on the grid of that precision.
C37_FlagFollowsOption ==
    /\ pc # "main" => Config_precision_minutes = (precision = "minute")
    /\ pc \in {"entry", "exit", "entry_ret", "exit_ret"} =>
         precision_minutes = (precision = "minute")
    /\ pc \in {"entry_ret", "exit_ret"} =>
         Aligned(result, precision = "minute")

\* A day-precision invocation that follows a minute-precision one has
\* bisected and its locator has returned.
C37_Witness ==
    /\ last_precision = "minute"
    /\ precision = "day"
    /\ pc \in {"entry_ret", "exit_ret"}
    /\ MidpointsSinceCoarse >= 1

\* ---------------------------------------------------------------- C38
\* C38: the search over all systems is all or nothing.  The systems are
\* searched in the order tropical, sidereal, astronomical, one calculator at
\* a time; ranges are written only by an invocation that exits with status 0
\* after every system's search completed, and then for every system; an
\* invocation in which a sign fails to parse, no ephemeris is found or a
\* get_sign call raises exits with a status other than 0 and writes nothing,
\* whatever systems were searched before the failure.
C38_AllOrNothing ==
    /\ results_by_system = SubSeq(systems, 1, Len(results_by_system))
    /\ constructed \in {Len(results_by_system), Len(results_by_system) + 1}
    /\ written # << >> =>
         /\ pc = "exited"
         /\ exit_status = 0
         /\ written = systems
         /\ results_by_system = systems
         /\ failed_at = NoDate
    /\ (pc = "exited" /\ (failed_at # NoDate \/ results_by_system # systems)) =>
         /\ exit_status = 1
         /\ written = << >>
    /\ (pc = "exited" /\ results_by_system = systems /\ failed_at = NoDate) =>
         /\ exit_status = 0
         /\ written = systems

\* The search over all systems failed in the astronomical system, after the
\* tropical and the sidereal search completed: nothing is written.
C38_Witness ==
    /\ systems = AllSystems
    /\ pc = "exited"
    /\ results_by_system = <<"tropical", "sidereal">>
    /\ exit_status = 1
    /\ written = << >>

====
